---------------------------- MODULE Spec2Model ----------------------------
(***************************************************************************)
(* The parser of src/parser/parse.py: a PLY (ply.yacc) LALR(1) grammar     *)
(* whose semantic actions p_* build the syntax tree of the automaton DSL.  *)
(*                                                                         *)
(* The model runs the table-driven shift/reduce loop of yacc's parse() on  *)
(* the token stream of one source file.  Python values are tagged records  *)
(* (str, int, None, list, tuple, the classes of parse.py) so that the      *)
(* dynamic typing of the semantic actions is kept: a list concatenated     *)
(* with a str raises TypeError, list.insert returns None, and so on.       *)
(* The textual dump of the result (parse.py line 489) is not modelled.     *)
(***************************************************************************)
EXTENDS Integers, Sequences, FiniteSets, TLC

VARIABLES
    source,      \* the source file being parsed (abstract text, see Lex)
    input,       \* the token stream the lexer hands to yacc
    pos,         \* index in input of the current lookahead token
    la,          \* "token": lookahead is input[pos]; "error": yacc's error symbol
    statestack,  \* yacc's statestack
    symstack,    \* yacc's symstack (the values p[i]; the $end sentinel is left out)
    errorcount,  \* yacc's errorcount in parse()
    errtoken,    \* position of the token last passed to p_error (0: none)
    stdout,      \* lines printed by p_error
    status,      \* "parsing", "returned" (parse() returned) or "crashed" (exception)
    result,      \* the value parse() returned
    exc          \* the exception that ended the program, "" if none

vars == <<source, input, pos, la, statestack, symstack, errorcount, errtoken,
          stdout, status, result, exc>>

-----------------------------------------------------------------------------
(* Python values *)

PyStr(s) == [tag |-> "str", s |-> s]

PyInt(n) == [tag |-> "int", n |-> n]

PyNone == [tag |-> "None"]

PyList(items) == [tag |-> "list", items |-> items]

PyTuple(items) == [tag |-> "tuple", items |-> items]

\* An exception raised while evaluating an expression.
Raise(e) == [tag |-> "raise", exc |-> e]

\* a + b
PyAdd(a, b) ==
    IF a.tag = "raise" THEN a
    ELSE IF b.tag = "raise" THEN b
    ELSE IF a.tag = "list" /\ b.tag = "list" THEN PyList(a.items \o b.items)
    ELSE IF a.tag = "tuple" /\ b.tag = "tuple" THEN PyTuple(a.items \o b.items)
    ELSE IF a.tag = "str" /\ b.tag = "str" THEN PyStr(a.s \o b.s)
    ELSE IF a.tag = "int" /\ b.tag = "int" THEN PyInt(a.n + b.n)
    ELSE Raise("TypeError")

\* The value of the call l.insert(0, x): list.insert mutates l and returns None;
\* any other receiver met here (None, str) has no attribute insert.
PyInsert(l, x) ==
    IF l.tag = "raise" THEN l
    ELSE IF l.tag = "list" THEN PyNone
    ELSE Raise("AttributeError")

\* type(v).__name__
PyTypeName(v) == PyStr(v.tag)

\* len(p) of the YaccProduction p whose right-hand side values are h = p[1..]
PyLen(h) == Len(h) + 1

-----------------------------------------------------------------------------
(* The classes of parse.py *)

ConstructorType(m) == [tag |-> "ConstructorType", member |-> m]

StateKind(m) == [tag |-> "StateKind", member |-> m]

Transition(symbol_by, state_to) ==
    [tag |-> "Transition", symbol_by |-> symbol_by, state_to |-> state_to]

AutomatonState(name, kind, transitions) ==
    [tag |-> "AutomatonState", name |-> name, kind |-> kind,
     transitions |-> transitions]

Automaton(name, alphabet_name, body) ==
    [tag |-> "Automaton", name |-> name, alphabet_name |-> alphabet_name,
     body |-> body]

AutomatonBody(start_state, regular_states, terminal_states) ==
    [tag |-> "AutomatonBody", start_state |-> start_state,
     regular_states |-> regular_states, terminal_states |-> terminal_states]

Alphabet(name, constructor_type, constructor_params) ==
    [tag |-> "Alphabet", name |-> name, constructor_type |-> constructor_type,
     constructor_params |-> constructor_params]

Variable(vartype, constructor_params) ==
    [tag |-> "Variable", vartype |-> vartype,
     constructor_params |-> constructor_params]

ClassDefinition(class_name, inherited_from, params, methods) ==
    [tag |-> "ClassDefinition", class_name |-> class_name,
     inherited_from |-> inherited_from, params |-> params, methods |-> methods]

ClassField(name, field_type, default_value) ==
    [tag |-> "ClassField", name |-> name, field_type |-> field_type,
     default_value |-> default_value]

ClassMethod(name, fields, return_type, operations) ==
    [tag |-> "ClassMethod", name |-> name, fields |-> fields,
     return_type |-> return_type, operations |-> operations]

FieldAccess(belongs_to, field_name) ==
    [tag |-> "FieldAccess", belongs_to |-> belongs_to, name |-> field_name]

CompareOperation(left, operator, right) ==
    [tag |-> "CompareOperation", left |-> left, operator |-> operator,
     right |-> right]

-----------------------------------------------------------------------------
(* The semantic actions.  p is the sequence p[1], p[2], ... of the values of *)
(* the right-hand side; the result is p[0].  p[0] is None until assigned.    *)

p_expressions(p) ==
    IF PyLen(p) = 2 THEN PyList(<<p[1]>>)
    ELSE IF PyLen(p) = 3 THEN PyAdd(PyList(<<p[1]>>), p[2])
    ELSE PyNone

p_expression(p) == p[1]

p_empty(p) == PyList(<<>>)

p_error(out) == Append(out, "Syntax error")

p_alphabet(p) ==
    IF PyLen(p) = 9
    THEN Alphabet(p[2], ConstructorType("enumeration"), p[7])
    ELSE IF PyLen(p) = 11
    THEN IF p[8] = PyStr("(")
         THEN Alphabet(p[2], ConstructorType("strict"), p[9])
         ELSE IF p[8] = PyStr("{")
         THEN Alphabet(p[2], ConstructorType("describe"), p[9])
         ELSE PyNone
    ELSE PyNone

p_enumeration(p) ==
    IF PyLen(p) = 2 THEN PyList(<<p[1]>>)
    ELSE PyAdd(PyList(<<p[1]>>), p[3])

p_term(p) ==
    IF PyLen(p) = 2 THEN p[1]
    ELSE IF PyLen(p) = 5 THEN Variable(p[1], p[3])
    ELSE PyNone

p_alphabetdescribebody(p) ==
    IF PyLen(p) = 2 THEN PyList(<<p[1]>>)
    ELSE IF PyLen(p) = 4 THEN PyAdd(PyList(<<p[1]>>), p[2])
    ELSE PyNone

p_paramsdescribe(p) == PyTuple(<<p[1], p[3]>>)

p_transitionterm(p) ==
    IF PyLen(p) = 2 THEN Variable(PyTypeName(p[1]), p[1])
    ELSE IF PyLen(p) = 5 THEN Variable(p[1], p[3])
    ELSE PyNone

p_transitionkeyword(p) == p[1]

p_transition(p) == Transition(p[1], p[3])

p_automaton(p) == Automaton(p[2], p[9], p[13])

p_automatondescribebody(p) ==
    AutomatonBody(AutomatonState(PyStr("start"), StateKind("start"), p[2]),
                  p[3], p[6])

\* p_statedescription with the single transition of the base case left out.
p_statedescription_dropping(p) ==
    IF PyLen(p) = 3 THEN PyAdd(PyList(<<p[1]>>), p[2])
    ELSE PyList(<<>>)

p_statedescription(p) ==
    IF PyLen(p) = 3 THEN PyAdd(PyList(<<p[1]>>), p[2])
    ELSE IF PyLen(p) = 2 THEN PyList(<<p[1]>>)
    ELSE PyNone

\* p_states with the new state put in front of the list instead of behind it.
p_states_prepending(p) ==
    IF PyLen(p) = 4
    THEN PyAdd(PyList(<<AutomatonState(p[2], StateKind("regular"), p[3])>>), p[1])
    ELSE IF PyLen(p) = 3
    THEN PyList(<<AutomatonState(p[1], StateKind("regular"), p[2])>>)
    ELSE PyList(<<>>)

p_states(p) ==
    IF PyLen(p) = 4
    THEN PyAdd(p[1], PyList(<<AutomatonState(p[2], StateKind("regular"), p[3])>>))
    ELSE IF PyLen(p) = 3
    THEN PyList(<<AutomatonState(p[1], StateKind("regular"), p[2])>>)
    ELSE PyList(<<>>)

p_termstates(p) ==
    IF PyLen(p) = 4
    THEN PyAdd(p[1], PyList(<<AutomatonState(p[2], StateKind("terminal"), p[3])>>))
    ELSE IF PyLen(p) = 3
    THEN PyList(<<AutomatonState(p[1], StateKind("terminal"), p[2])>>)
    ELSE PyList(<<>>)

p_classdef(p) == ClassDefinition(p[2], p[7], p[4], p[9])

p_field(p) ==
    IF PyLen(p) = 4 THEN ClassField(p[1], p[3], PyNone)
    ELSE ClassField(p[1], p[3], p[5])

p_fields(p) ==
    IF PyLen(p) = 2 THEN PyList(<<p[1]>>)
    ELSE PyAdd(PyList(<<p[1]>>), p[3])

p_classbody(p) ==
    IF PyLen(p) = 2 THEN PyList(<<p[1]>>)
    ELSE PyInsert(p[2], p[1])

p_method(p) == ClassMethod(p[3], p[5], p[8], p[12])

p_compareoperation(p) ==
    CompareOperation(FieldAccess(p[1], p[2]), p[3], FieldAccess(p[4], p[5]))

p_logicoperations(p) ==
    IF PyLen(p) = 2 THEN PyList(<<p[1]>>)
    ELSE IF PyLen(p) = 4
    THEN PyAdd(PyAdd(PyList(<<p[1]>>), p[2]), PyList(<<p[3]>>))
    ELSE IF PyLen(p) = 6
    THEN PyAdd(p[1], PyList(<<p[2], p[3], p[4], p[5]>>))
    ELSE PyNone

-----------------------------------------------------------------------------
(* The grammar: the rules of the docstrings of the p_* functions, in file    *)
(* order, and the LALR(1) tables yacc.yacc() derives from them (start symbol *)
(* expressions, rule 0 being S' -> expressions).  An action n > 0 shifts and *)
(* goes to state n, n < 0 reduces by rule -n, 0 accepts.  The grammar has    *)
(* three shift/reduce conflicts, which yacc resolves in favour of the shift: *)
(* on PAREND after "... METHOD PARSTART ID" (term -> ID against the          *)
(* automaton rule), and on ID where states and termstates begin (empty       *)
(* against ID statedescription).  State numbers are 0-based.                 *)

Productions ==
  <<
    [lhs |-> "expressions", fn |-> "p_expressions",
     rhs |-> <<"expression">>],  \* rule 1
    [lhs |-> "expressions", fn |-> "p_expressions",
     rhs |-> <<"expression", "expressions">>],  \* rule 2
    [lhs |-> "expression", fn |-> "p_expression",
     rhs |-> <<"classdef">>],  \* rule 3
    [lhs |-> "expression", fn |-> "p_expression",
     rhs |-> <<"automaton">>],  \* rule 4
    [lhs |-> "expression", fn |-> "p_expression",
     rhs |-> <<"alphabet">>],  \* rule 5
    [lhs |-> "empty", fn |-> "p_empty",
     rhs |-> <<>>],  \* rule 6
    [lhs |-> "alphabet", fn |-> "p_alphabet",
     rhs |-> <<"DEF", "ID", "TYPIZATION", "CLASSNAME", "EQUALITY", "BLOCKSTART", "enumeration", "BLOCKEND">>],  \* rule 7
    [lhs |-> "alphabet", fn |-> "p_alphabet",
     rhs |-> <<"DEF", "ID", "TYPIZATION", "CLASSNAME", "EQUALITY", "CLASSNAME", "METHOD", "PARSTART", "enumeration", "PAREND">>],  \* rule 8
    [lhs |-> "alphabet", fn |-> "p_alphabet",
     rhs |-> <<"DEF", "ID", "TYPIZATION", "CLASSNAME", "EQUALITY", "CLASSNAME", "METHOD", "BLOCKSTART", "alphabetdescribebody", "BLOCKEND">>],  \* rule 9
    [lhs |-> "enumeration", fn |-> "p_enumeration",
     rhs |-> <<"term">>],  \* rule 10
    [lhs |-> "enumeration", fn |-> "p_enumeration",
     rhs |-> <<"term", "COMMA", "enumeration">>],  \* rule 11
    [lhs |-> "term", fn |-> "p_term",
     rhs |-> <<"CHAR">>],  \* rule 12
    [lhs |-> "term", fn |-> "p_term",
     rhs |-> <<"INT">>],  \* rule 13
    [lhs |-> "term", fn |-> "p_term",
     rhs |-> <<"STRING">>],  \* rule 14
    [lhs |-> "term", fn |-> "p_term",
     rhs |-> <<"ID">>],  \* rule 15
    [lhs |-> "term", fn |-> "p_term",
     rhs |-> <<"CLASSNAME", "PARSTART", "enumeration", "PAREND">>],  \* rule 16
    [lhs |-> "alphabetdescribebody", fn |-> "p_alphabetdescribebody",
     rhs |-> <<"paramsdescribe">>],  \* rule 17
    [lhs |-> "alphabetdescribebody", fn |-> "p_alphabetdescribebody",
     rhs |-> <<"paramsdescribe", "COMMA", "alphabetdescribebody">>],  \* rule 18
    [lhs |-> "paramsdescribe", fn |-> "p_paramsdescribe",
     rhs |-> <<"enumeration", "FROM", "ID">>],  \* rule 19
    [lhs |-> "transitionterm", fn |-> "p_transitionterm",
     rhs |-> <<"CHAR">>],  \* rule 20
    [lhs |-> "transitionterm", fn |-> "p_transitionterm",
     rhs |-> <<"INT">>],  \* rule 21
    [lhs |-> "transitionterm", fn |-> "p_transitionterm",
     rhs |-> <<"STRING">>],  \* rule 22
    [lhs |-> "transitionterm", fn |-> "p_transitionterm",
     rhs |-> <<"CLASSNAME", "PARSTART", "enumeration", "PAREND">>],  \* rule 23
    [lhs |-> "transitionkeyword", fn |-> "p_transitionkeyword",
     rhs |-> <<"ELSE">>],  \* rule 24
    [lhs |-> "transitionkeyword", fn |-> "p_transitionkeyword",
     rhs |-> <<"DEADEND">>],  \* rule 25
    [lhs |-> "transitionkeyword", fn |-> "p_transitionkeyword",
     rhs |-> <<"ALPHABET">>],  \* rule 26
    [lhs |-> "transitionkeyword", fn |-> "p_transitionkeyword",
     rhs |-> <<"ITSELF">>],  \* rule 27
    [lhs |-> "transition", fn |-> "p_transition",
     rhs |-> <<"transitionterm", "ARROW", "ID">>],  \* rule 28
    [lhs |-> "transition", fn |-> "p_transition",
     rhs |-> <<"transitionkeyword", "ARROW", "ID">>],  \* rule 29
    [lhs |-> "transition", fn |-> "p_transition",
     rhs |-> <<"transitionkeyword", "ARROW", "transitionkeyword">>],  \* rule 30
    [lhs |-> "automaton", fn |-> "p_automaton",
     rhs |-> <<"DEF", "ID", "TYPIZATION", "CLASSNAME", "EQUALITY", "CLASSNAME", "METHOD", "PARSTART", "ID", "PAREND", "METHOD", "BLOCKSTART", "automatondescribebody", "BLOCKEND">>],  \* rule 31
    [lhs |-> "automatondescribebody", fn |-> "p_automatondescribebody",
     rhs |-> <<"START", "statedescription", "states", "TERMINAL", "BLOCKSTART", "termstates", "BLOCKEND">>],  \* rule 32
    [lhs |-> "statedescription", fn |-> "p_statedescription",
     rhs |-> <<"transition", "statedescription">>],  \* rule 33
    [lhs |-> "statedescription", fn |-> "p_statedescription",
     rhs |-> <<"transition">>],  \* rule 34
    [lhs |-> "states", fn |-> "p_states",
     rhs |-> <<"states", "ID", "statedescription">>],  \* rule 35
    [lhs |-> "states", fn |-> "p_states",
     rhs |-> <<"ID", "statedescription">>],  \* rule 36
    [lhs |-> "states", fn |-> "p_states",
     rhs |-> <<"empty">>],  \* rule 37
    [lhs |-> "termstates", fn |-> "p_termstates",
     rhs |-> <<"termstates", "ID", "statedescription">>],  \* rule 38
    [lhs |-> "termstates", fn |-> "p_termstates",
     rhs |-> <<"ID", "statedescription">>],  \* rule 39
    [lhs |-> "termstates", fn |-> "p_termstates",
     rhs |-> <<"empty">>],  \* rule 40
    [lhs |-> "classdef", fn |-> "p_classdef",
     rhs |-> <<"CLASS", "CLASSNAME", "PARSTART", "fields", "PAREND", "TYPIZATION", "CLASSNAME", "BLOCKSTART", "classbody", "BLOCKEND">>],  \* rule 41
    [lhs |-> "field", fn |-> "p_field",
     rhs |-> <<"ID", "TYPIZATION", "CLASSNAME">>],  \* rule 42
    [lhs |-> "field", fn |-> "p_field",
     rhs |-> <<"ID", "TYPIZATION", "CLASSNAME", "EQUALITY", "transitionterm">>],  \* rule 43
    [lhs |-> "fields", fn |-> "p_fields",
     rhs |-> <<"field">>],  \* rule 44
    [lhs |-> "fields", fn |-> "p_fields",
     rhs |-> <<"field", "COMMA", "fields">>],  \* rule 45
    [lhs |-> "classbody", fn |-> "p_classbody",
     rhs |-> <<"method">>],  \* rule 46
    [lhs |-> "classbody", fn |-> "p_classbody",
     rhs |-> <<"method", "classbody">>],  \* rule 47
    [lhs |-> "method", fn |-> "p_method",
     rhs |-> <<"OVERRIDE", "FUN", "ID", "PARSTART", "fields", "PAREND", "TYPIZATION", "CLASSNAME", "BLOCKSTART", "RETURN", "PARSTART", "logicoperations", "PAREND", "BLOCKEND">>],  \* rule 48
    [lhs |-> "compareoperation", fn |-> "p_compareoperation",
     rhs |-> <<"ID", "METHOD", "COMPAREOPERATOR", "ID", "METHOD">>],  \* rule 49
    [lhs |-> "logicoperations", fn |-> "p_logicoperations",
     rhs |-> <<"compareoperation">>],  \* rule 50
    [lhs |-> "logicoperations", fn |-> "p_logicoperations",
     rhs |-> <<"PARSTART", "logicoperations", "PAREND">>],  \* rule 51
    [lhs |-> "logicoperations", fn |-> "p_logicoperations",
     rhs |-> <<"logicoperations", "LOGICOPERATOR", "PARSTART", "compareoperation", "PAREND">>]   \* rule 52
  >>

ActionTable ==
  <<
    ("CLASS" :> 7 @@ "DEF" :> 6),  \* state 0
    ("$end" :> 0),  \* state 1
    ("$end" :> -1 @@ "CLASS" :> 7 @@ "DEF" :> 6),  \* state 2
    ("$end" :> -3 @@ "CLASS" :> -3 @@ "DEF" :> -3),  \* state 3
    ("$end" :> -4 @@ "CLASS" :> -4 @@ "DEF" :> -4),  \* state 4
    ("$end" :> -5 @@ "CLASS" :> -5 @@ "DEF" :> -5),  \* state 5
    ("ID" :> 9),  \* state 6
    ("CLASSNAME" :> 10),  \* state 7
    ("$end" :> -2),  \* state 8
    ("TYPIZATION" :> 11),  \* state 9
    ("PARSTART" :> 12),  \* state 10
    ("CLASSNAME" :> 13),  \* state 11
    ("ID" :> 15),  \* state 12
    ("EQUALITY" :> 17),  \* state 13
    ("PAREND" :> 18),  \* state 14
    ("TYPIZATION" :> 19),  \* state 15
    ("COMMA" :> 20 @@ "PAREND" :> -44),  \* state 16
    ("BLOCKSTART" :> 21 @@ "CLASSNAME" :> 22),  \* state 17
    ("TYPIZATION" :> 23),  \* state 18
    ("CLASSNAME" :> 24),  \* state 19
    ("ID" :> 15),  \* state 20
    ("CHAR" :> 28 @@ "CLASSNAME" :> 32 @@ "ID" :> 31 @@ "INT" :> 29 @@ "STRING" :> 30),  \* state 21
    ("METHOD" :> 33),  \* state 22
    ("CLASSNAME" :> 34),  \* state 23
    ("COMMA" :> -42 @@ "EQUALITY" :> 35 @@ "PAREND" :> -42),  \* state 24
    ("PAREND" :> -45),  \* state 25
    ("BLOCKEND" :> 36),  \* state 26
    ("BLOCKEND" :> -10 @@ "COMMA" :> 37 @@ "FROM" :> -10 @@ "PAREND" :> -10),  \* state 27
    ("BLOCKEND" :> -12 @@ "COMMA" :> -12 @@ "FROM" :> -12 @@ "PAREND" :> -12),  \* state 28
    ("BLOCKEND" :> -13 @@ "COMMA" :> -13 @@ "FROM" :> -13 @@ "PAREND" :> -13),  \* state 29
    ("BLOCKEND" :> -14 @@ "COMMA" :> -14 @@ "FROM" :> -14 @@ "PAREND" :> -14),  \* state 30
    ("BLOCKEND" :> -15 @@ "COMMA" :> -15 @@ "FROM" :> -15 @@ "PAREND" :> -15),  \* state 31
    ("PARSTART" :> 38),  \* state 32
    ("BLOCKSTART" :> 40 @@ "PARSTART" :> 39),  \* state 33
    ("BLOCKSTART" :> 41),  \* state 34
    ("CHAR" :> 42 @@ "CLASSNAME" :> 45 @@ "INT" :> 43 @@ "STRING" :> 44),  \* state 35
    ("$end" :> -7 @@ "CLASS" :> -7 @@ "DEF" :> -7),  \* state 36
    ("CHAR" :> 28 @@ "CLASSNAME" :> 32 @@ "ID" :> 31 @@ "INT" :> 29 @@ "STRING" :> 30),  \* state 37
    ("CHAR" :> 28 @@ "CLASSNAME" :> 32 @@ "ID" :> 31 @@ "INT" :> 29 @@ "STRING" :> 30),  \* state 38
    ("CHAR" :> 28 @@ "CLASSNAME" :> 32 @@ "ID" :> 50 @@ "INT" :> 29 @@ "STRING" :> 30),  \* state 39
    ("CHAR" :> 28 @@ "CLASSNAME" :> 32 @@ "ID" :> 31 @@ "INT" :> 29 @@ "STRING" :> 30),  \* state 40
    ("OVERRIDE" :> 56),  \* state 41
    ("ARROW" :> -20 @@ "COMMA" :> -20 @@ "PAREND" :> -20),  \* state 42
    ("ARROW" :> -21 @@ "COMMA" :> -21 @@ "PAREND" :> -21),  \* state 43
    ("ARROW" :> -22 @@ "COMMA" :> -22 @@ "PAREND" :> -22),  \* state 44
    ("PARSTART" :> 57),  \* state 45
    ("COMMA" :> -43 @@ "PAREND" :> -43),  \* state 46
    ("BLOCKEND" :> -11 @@ "FROM" :> -11 @@ "PAREND" :> -11),  \* state 47
    ("PAREND" :> 58),  \* state 48
    ("PAREND" :> 59),  \* state 49
    ("COMMA" :> -15 @@ "PAREND" :> 60),  \* state 50
    ("BLOCKEND" :> 61),  \* state 51
    ("BLOCKEND" :> -17 @@ "COMMA" :> 62),  \* state 52
    ("FROM" :> 63),  \* state 53
    ("BLOCKEND" :> 64),  \* state 54
    ("BLOCKEND" :> -46 @@ "OVERRIDE" :> 56),  \* state 55
    ("FUN" :> 66),  \* state 56
    ("CHAR" :> 28 @@ "CLASSNAME" :> 32 @@ "ID" :> 31 @@ "INT" :> 29 @@ "STRING" :> 30),  \* state 57
    ("BLOCKEND" :> -16 @@ "COMMA" :> -16 @@ "FROM" :> -16 @@ "PAREND" :> -16),  \* state 58
    ("$end" :> -8 @@ "CLASS" :> -8 @@ "DEF" :> -8),  \* state 59
    ("METHOD" :> 68),  \* state 60
    ("$end" :> -9 @@ "CLASS" :> -9 @@ "DEF" :> -9),  \* state 61
    ("CHAR" :> 28 @@ "CLASSNAME" :> 32 @@ "ID" :> 31 @@ "INT" :> 29 @@ "STRING" :> 30),  \* state 62
    ("ID" :> 70),  \* state 63
    ("$end" :> -41 @@ "CLASS" :> -41 @@ "DEF" :> -41),  \* state 64
    ("BLOCKEND" :> -47),  \* state 65
    ("ID" :> 71),  \* state 66
    ("PAREND" :> 72),  \* state 67
    ("BLOCKSTART" :> 73),  \* state 68
    ("BLOCKEND" :> -18),  \* state 69
    ("BLOCKEND" :> -19 @@ "COMMA" :> -19),  \* state 70
    ("PARSTART" :> 74),  \* state 71
    ("ARROW" :> -23 @@ "COMMA" :> -23 @@ "PAREND" :> -23),  \* state 72
    ("START" :> 76),  \* state 73
    ("ID" :> 15),  \* state 74
    ("BLOCKEND" :> 78),  \* state 75
    ("ALPHABET" :> 81 @@ "CHAR" :> 42 @@ "CLASSNAME" :> 45 @@ "DEADEND" :> 80 @@ "ELSE" :> 79 @@ "INT" :> 43 @@ "ITSELF" :> 82 @@ "STRING" :> 44),  \* state 76
    ("PAREND" :> 87),  \* state 77
    ("$end" :> -31 @@ "CLASS" :> -31 @@ "DEF" :> -31),  \* state 78
    ("ALPHABET" :> -24 @@ "ARROW" :> -24 @@ "BLOCKEND" :> -24 @@ "CHAR" :> -24 @@ "CLASSNAME" :> -24 @@ "DEADEND" :> -24 @@ "ELSE" :> -24 @@ "ID" :> -24 @@ "INT" :> -24 @@ "ITSELF" :> -24 @@ "STRING" :> -24 @@ "TERMINAL" :> -24),  \* state 79
    ("ALPHABET" :> -25 @@ "ARROW" :> -25 @@ "BLOCKEND" :> -25 @@ "CHAR" :> -25 @@ "CLASSNAME" :> -25 @@ "DEADEND" :> -25 @@ "ELSE" :> -25 @@ "ID" :> -25 @@ "INT" :> -25 @@ "ITSELF" :> -25 @@ "STRING" :> -25 @@ "TERMINAL" :> -25),  \* state 80
    ("ALPHABET" :> -26 @@ "ARROW" :> -26 @@ "BLOCKEND" :> -26 @@ "CHAR" :> -26 @@ "CLASSNAME" :> -26 @@ "DEADEND" :> -26 @@ "ELSE" :> -26 @@ "ID" :> -26 @@ "INT" :> -26 @@ "ITSELF" :> -26 @@ "STRING" :> -26 @@ "TERMINAL" :> -26),  \* state 81
    ("ALPHABET" :> -27 @@ "ARROW" :> -27 @@ "BLOCKEND" :> -27 @@ "CHAR" :> -27 @@ "CLASSNAME" :> -27 @@ "DEADEND" :> -27 @@ "ELSE" :> -27 @@ "ID" :> -27 @@ "INT" :> -27 @@ "ITSELF" :> -27 @@ "STRING" :> -27 @@ "TERMINAL" :> -27),  \* state 82
    ("ARROW" :> 88),  \* state 83
    ("ARROW" :> 89),  \* state 84
    ("ID" :> 91 @@ "TERMINAL" :> -6),  \* state 85
    ("ALPHABET" :> 81 @@ "BLOCKEND" :> -34 @@ "CHAR" :> 42 @@ "CLASSNAME" :> 45 @@ "DEADEND" :> 80 @@ "ELSE" :> 79 @@ "ID" :> -34 @@ "INT" :> 43 @@ "ITSELF" :> 82 @@ "STRING" :> 44 @@ "TERMINAL" :> -34),  \* state 86
    ("TYPIZATION" :> 94),  \* state 87
    ("ID" :> 95),  \* state 88
    ("ALPHABET" :> 81 @@ "DEADEND" :> 80 @@ "ELSE" :> 79 @@ "ID" :> 96 @@ "ITSELF" :> 82),  \* state 89
    ("ID" :> 99 @@ "TERMINAL" :> 98),  \* state 90
    ("ALPHABET" :> 81 @@ "CHAR" :> 42 @@ "CLASSNAME" :> 45 @@ "DEADEND" :> 80 @@ "ELSE" :> 79 @@ "INT" :> 43 @@ "ITSELF" :> 82 @@ "STRING" :> 44),  \* state 91
    ("ID" :> -37 @@ "TERMINAL" :> -37),  \* state 92
    ("BLOCKEND" :> -33 @@ "ID" :> -33 @@ "TERMINAL" :> -33),  \* state 93
    ("CLASSNAME" :> 101),  \* state 94
    ("ALPHABET" :> -28 @@ "BLOCKEND" :> -28 @@ "CHAR" :> -28 @@ "CLASSNAME" :> -28 @@ "DEADEND" :> -28 @@ "ELSE" :> -28 @@ "ID" :> -28 @@ "INT" :> -28 @@ "ITSELF" :> -28 @@ "STRING" :> -28 @@ "TERMINAL" :> -28),  \* state 95
    ("ALPHABET" :> -29 @@ "BLOCKEND" :> -29 @@ "CHAR" :> -29 @@ "CLASSNAME" :> -29 @@ "DEADEND" :> -29 @@ "ELSE" :> -29 @@ "ID" :> -29 @@ "INT" :> -29 @@ "ITSELF" :> -29 @@ "STRING" :> -29 @@ "TERMINAL" :> -29),  \* state 96
    ("ALPHABET" :> -30 @@ "BLOCKEND" :> -30 @@ "CHAR" :> -30 @@ "CLASSNAME" :> -30 @@ "DEADEND" :> -30 @@ "ELSE" :> -30 @@ "ID" :> -30 @@ "INT" :> -30 @@ "ITSELF" :> -30 @@ "STRING" :> -30 @@ "TERMINAL" :> -30),  \* state 97
    ("BLOCKSTART" :> 102),  \* state 98
    ("ALPHABET" :> 81 @@ "CHAR" :> 42 @@ "CLASSNAME" :> 45 @@ "DEADEND" :> 80 @@ "ELSE" :> 79 @@ "INT" :> 43 @@ "ITSELF" :> 82 @@ "STRING" :> 44),  \* state 99
    ("ID" :> -36 @@ "TERMINAL" :> -36),  \* state 100
    ("BLOCKSTART" :> 104),  \* state 101
    ("BLOCKEND" :> -6 @@ "ID" :> 106),  \* state 102
    ("ID" :> -35 @@ "TERMINAL" :> -35),  \* state 103
    ("RETURN" :> 108),  \* state 104
    ("BLOCKEND" :> 109 @@ "ID" :> 110),  \* state 105
    ("ALPHABET" :> 81 @@ "CHAR" :> 42 @@ "CLASSNAME" :> 45 @@ "DEADEND" :> 80 @@ "ELSE" :> 79 @@ "INT" :> 43 @@ "ITSELF" :> 82 @@ "STRING" :> 44),  \* state 106
    ("BLOCKEND" :> -40 @@ "ID" :> -40),  \* state 107
    ("PARSTART" :> 112),  \* state 108
    ("BLOCKEND" :> -32),  \* state 109
    ("ALPHABET" :> 81 @@ "CHAR" :> 42 @@ "CLASSNAME" :> 45 @@ "DEADEND" :> 80 @@ "ELSE" :> 79 @@ "INT" :> 43 @@ "ITSELF" :> 82 @@ "STRING" :> 44),  \* state 110
    ("BLOCKEND" :> -39 @@ "ID" :> -39),  \* state 111
    ("ID" :> 115 @@ "PARSTART" :> 117),  \* state 112
    ("BLOCKEND" :> -38 @@ "ID" :> -38),  \* state 113
    ("LOGICOPERATOR" :> 119 @@ "PAREND" :> 118),  \* state 114
    ("METHOD" :> 120),  \* state 115
    ("LOGICOPERATOR" :> -50 @@ "PAREND" :> -50),  \* state 116
    ("ID" :> 115 @@ "PARSTART" :> 117),  \* state 117
    ("BLOCKEND" :> 122),  \* state 118
    ("PARSTART" :> 123),  \* state 119
    ("COMPAREOPERATOR" :> 124),  \* state 120
    ("LOGICOPERATOR" :> 119 @@ "PAREND" :> 125),  \* state 121
    ("BLOCKEND" :> -48 @@ "OVERRIDE" :> -48),  \* state 122
    ("ID" :> 115),  \* state 123
    ("ID" :> 127),  \* state 124
    ("LOGICOPERATOR" :> -51 @@ "PAREND" :> -51),  \* state 125
    ("PAREND" :> 128),  \* state 126
    ("METHOD" :> 129),  \* state 127
    ("LOGICOPERATOR" :> -52 @@ "PAREND" :> -52),  \* state 128
    ("LOGICOPERATOR" :> -49 @@ "PAREND" :> -49)   \* state 129
  >>

GotoTable ==
  <<
    ("alphabet" :> 5 @@ "automaton" :> 4 @@ "classdef" :> 3 @@ "expression" :> 2 @@ "expressions" :> 1),  \* state 0
    <<>>,  \* state 1
    ("alphabet" :> 5 @@ "automaton" :> 4 @@ "classdef" :> 3 @@ "expression" :> 2 @@ "expressions" :> 8),  \* state 2
    <<>>,  \* state 3
    <<>>,  \* state 4
    <<>>,  \* state 5
    <<>>,  \* state 6
    <<>>,  \* state 7
    <<>>,  \* state 8
    <<>>,  \* state 9
    <<>>,  \* state 10
    <<>>,  \* state 11
    ("field" :> 16 @@ "fields" :> 14),  \* state 12
    <<>>,  \* state 13
    <<>>,  \* state 14
    <<>>,  \* state 15
    <<>>,  \* state 16
    <<>>,  \* state 17
    <<>>,  \* state 18
    <<>>,  \* state 19
    ("field" :> 16 @@ "fields" :> 25),  \* state 20
    ("enumeration" :> 26 @@ "term" :> 27),  \* state 21
    <<>>,  \* state 22
    <<>>,  \* state 23
    <<>>,  \* state 24
    <<>>,  \* state 25
    <<>>,  \* state 26
    <<>>,  \* state 27
    <<>>,  \* state 28
    <<>>,  \* state 29
    <<>>,  \* state 30
    <<>>,  \* state 31
    <<>>,  \* state 32
    <<>>,  \* state 33
    <<>>,  \* state 34
    ("transitionterm" :> 46),  \* state 35
    <<>>,  \* state 36
    ("enumeration" :> 47 @@ "term" :> 27),  \* state 37
    ("enumeration" :> 48 @@ "term" :> 27),  \* state 38
    ("enumeration" :> 49 @@ "term" :> 27),  \* state 39
    ("alphabetdescribebody" :> 51 @@ "enumeration" :> 53 @@ "paramsdescribe" :> 52 @@ "term" :> 27),  \* state 40
    ("classbody" :> 54 @@ "method" :> 55),  \* state 41
    <<>>,  \* state 42
    <<>>,  \* state 43
    <<>>,  \* state 44
    <<>>,  \* state 45
    <<>>,  \* state 46
    <<>>,  \* state 47
    <<>>,  \* state 48
    <<>>,  \* state 49
    <<>>,  \* state 50
    <<>>,  \* state 51
    <<>>,  \* state 52
    <<>>,  \* state 53
    <<>>,  \* state 54
    ("classbody" :> 65 @@ "method" :> 55),  \* state 55
    <<>>,  \* state 56
    ("enumeration" :> 67 @@ "term" :> 27),  \* state 57
    <<>>,  \* state 58
    <<>>,  \* state 59
    <<>>,  \* state 60
    <<>>,  \* state 61
    ("alphabetdescribebody" :> 69 @@ "enumeration" :> 53 @@ "paramsdescribe" :> 52 @@ "term" :> 27),  \* state 62
    <<>>,  \* state 63
    <<>>,  \* state 64
    <<>>,  \* state 65
    <<>>,  \* state 66
    <<>>,  \* state 67
    <<>>,  \* state 68
    <<>>,  \* state 69
    <<>>,  \* state 70
    <<>>,  \* state 71
    <<>>,  \* state 72
    ("automatondescribebody" :> 75),  \* state 73
    ("field" :> 16 @@ "fields" :> 77),  \* state 74
    <<>>,  \* state 75
    ("statedescription" :> 85 @@ "transition" :> 86 @@ "transitionkeyword" :> 84 @@ "transitionterm" :> 83),  \* state 76
    <<>>,  \* state 77
    <<>>,  \* state 78
    <<>>,  \* state 79
    <<>>,  \* state 80
    <<>>,  \* state 81
    <<>>,  \* state 82
    <<>>,  \* state 83
    <<>>,  \* state 84
    ("empty" :> 92 @@ "states" :> 90),  \* state 85
    ("statedescription" :> 93 @@ "transition" :> 86 @@ "transitionkeyword" :> 84 @@ "transitionterm" :> 83),  \* state 86
    <<>>,  \* state 87
    <<>>,  \* state 88
    ("transitionkeyword" :> 97),  \* state 89
    <<>>,  \* state 90
    ("statedescription" :> 100 @@ "transition" :> 86 @@ "transitionkeyword" :> 84 @@ "transitionterm" :> 83),  \* state 91
    <<>>,  \* state 92
    <<>>,  \* state 93
    <<>>,  \* state 94
    <<>>,  \* state 95
    <<>>,  \* state 96
    <<>>,  \* state 97
    <<>>,  \* state 98
    ("statedescription" :> 103 @@ "transition" :> 86 @@ "transitionkeyword" :> 84 @@ "transitionterm" :> 83),  \* state 99
    <<>>,  \* state 100
    <<>>,  \* state 101
    ("empty" :> 107 @@ "termstates" :> 105),  \* state 102
    <<>>,  \* state 103
    <<>>,  \* state 104
    <<>>,  \* state 105
    ("statedescription" :> 111 @@ "transition" :> 86 @@ "transitionkeyword" :> 84 @@ "transitionterm" :> 83),  \* state 106
    <<>>,  \* state 107
    <<>>,  \* state 108
    <<>>,  \* state 109
    ("statedescription" :> 113 @@ "transition" :> 86 @@ "transitionkeyword" :> 84 @@ "transitionterm" :> 83),  \* state 110
    <<>>,  \* state 111
    ("compareoperation" :> 116 @@ "logicoperations" :> 114),  \* state 112
    <<>>,  \* state 113
    <<>>,  \* state 114
    <<>>,  \* state 115
    <<>>,  \* state 116
    ("compareoperation" :> 116 @@ "logicoperations" :> 121),  \* state 117
    <<>>,  \* state 118
    <<>>,  \* state 119
    <<>>,  \* state 120
    <<>>,  \* state 121
    <<>>,  \* state 122
    ("compareoperation" :> 126),  \* state 123
    <<>>,  \* state 124
    <<>>,  \* state 125
    <<>>,  \* state 126
    <<>>,  \* state 127
    <<>>,  \* state 128
    <<>>   \* state 129
  >>

NumStates == Len(ActionTable)

\* yacc's set_defaulted_states: a state whose only action is one reduction
\* reduces without reading the lookahead.
DefaultedStates ==
    {s \in 0..(NumStates - 1) :
        LET row == ActionTable[s + 1]
        IN  /\ Cardinality(DOMAIN row) = 1
            /\ \A a \in DOMAIN row : row[a] < 0}

IsDefaulted(s) == s \in DefaultedStates

DefaultAction(s) ==
    LET row == ActionTable[s + 1]
    IN  row[CHOOSE a \in DOMAIN row : TRUE]

-----------------------------------------------------------------------------
(* The lexer (module lex) and the source text.  A token is its type and its *)
(* value; the value is what a semantic action sees as p[i].                 *)

Tok(type, value) == [type |-> type, value |-> value]

KDef == Tok("DEF", PyStr("def"))

KClass == Tok("CLASS", PyStr("class"))

KOverride == Tok("OVERRIDE", PyStr("override"))

KFun == Tok("FUN", PyStr("fun"))

KReturn == Tok("RETURN", PyStr("return"))

KStart == Tok("START", PyStr("start"))

KTerminal == Tok("TERMINAL", PyStr("terminal"))

KFrom == Tok("FROM", PyStr("from"))

Colon == Tok("TYPIZATION", PyStr(":"))

Equals == Tok("EQUALITY", PyStr("="))

LBrace == Tok("BLOCKSTART", PyStr("{"))

RBrace == Tok("BLOCKEND", PyStr("}"))

LParen == Tok("PARSTART", PyStr("("))

RParen == Tok("PAREND", PyStr(")"))

Comma == Tok("COMMA", PyStr(","))

Arrow == Tok("ARROW", PyStr("->"))

Dot == Tok("METHOD", PyStr("."))

Ident(x) == Tok("ID", PyStr(x))

TypeName(x) == Tok("CLASSNAME", PyStr(x))

KeywordType(w) ==
    CASE w = "else" -> "ELSE"
      [] w = "deadend" -> "DEADEND"
      [] w = "alphabet" -> "ALPHABET"
      [] w = "itself" -> "ITSELF"

(* Source text, as the tree of what is written.  Terms:                      *)
(*   [k |-> "CHAR" | "STRING" | "ID", v |-> text]      a literal, an identifier *)
(*   [k |-> "INT", n |-> number]                                             *)
(*   [k |-> "kw", v |-> word]                          a transition keyword  *)
(*   [k |-> "ctor", type |-> T, args |-> <<term, ...>>]   T(arg, ...)        *)

SChar(c) == [k |-> "CHAR", v |-> c]

SString(s) == [k |-> "STRING", v |-> s]

SInt(n) == [k |-> "INT", n |-> n]

SId(x) == [k |-> "ID", v |-> x]

SKw(w) == [k |-> "kw", v |-> w]

SCtor(type, args) == [k |-> "ctor", type |-> type, args |-> args]

RECURSIVE LexTerm(_)
RECURSIVE LexEnum(_)
LexTerm(t) ==
    CASE t.k = "INT" -> <<Tok("INT", PyInt(t.n))>>
      [] t.k = "kw" -> <<Tok(KeywordType(t.v), PyStr(t.v))>>
      [] t.k = "ctor" -> <<TypeName(t.type), LParen>> \o LexEnum(t.args) \o <<RParen>>
      [] OTHER -> <<Tok(t.k, PyStr(t.v))>>

LexEnum(ts) ==
    IF Len(ts) = 0 THEN <<>>
    ELSE IF Len(ts) = 1 THEN LexTerm(ts[1])
    ELSE LexTerm(ts[1]) \o <<Comma>> \o LexEnum(Tail(ts))

\* Concatenation of the sequences f(xs[1]), f(xs[2]), ..., sep between them.
RECURSIVE Join(_, _, _)
Join(f(_), xs, sep) ==
    IF Len(xs) = 0 THEN <<>>
    ELSE IF Len(xs) = 1 THEN f(xs[1])
    ELSE f(xs[1]) \o sep \o Join(f, Tail(xs), sep)

(* Declarations:                                                             *)
(*   alphabet:  name, form ("enumeration", "strict", "describe"), terms      *)
(*              (the enumeration), pairs (describe: <<[terms, from], ...>>), *)
(*              paren (describe: each enumeration written in parentheses)    *)
(*   automaton: name, alphabet, start (transitions), regular and terminal    *)
(*              (<<[name, trans], ...>>), termblock (the terminal { } block  *)
(*              is written)                                                  *)
(*   class:     name, parent, fields, methods, fused                         *)

SAlphabet(name, form, terms, pairs, paren) ==
    [k |-> "alphabet", name |-> name, form |-> form, terms |-> terms,
     pairs |-> pairs, paren |-> paren]

SPair(terms, from) == [terms |-> terms, from |-> from]

STrans(by, to) == [by |-> by, to |-> to]

SState(name, trans) == [name |-> name, trans |-> trans]

SAutomaton(name, alphabet, start, regular, terminal, termblock) ==
    [k |-> "automaton", name |-> name, alphabet |-> alphabet, start |-> start,
     regular |-> regular, terminal |-> terminal, termblock |-> termblock]

SNoDefault == [k |-> "none"]

SField(name, type, default) == [name |-> name, type |-> type, default |-> default]

SCmp(a, x, op, b, y) == [k |-> "cmp", a |-> a, x |-> x, op |-> op, b |-> b, y |-> y]

SParen(e) == [k |-> "paren", e |-> e]

SChain(e, op, c) == [k |-> "chain", e |-> e, op |-> op, c |-> c]

SMethod(name, fields, ret, ops) ==
    [name |-> name, fields |-> fields, ret |-> ret, ops |-> ops]

SClass(name, parent, fields, methods, fused) ==
    [k |-> "class", name |-> name, parent |-> parent, fields |-> fields,
     methods |-> methods, fused |-> fused]

LexPair(paren, pr) ==
    (IF paren THEN <<LParen>> \o LexEnum(pr.terms) \o <<RParen>>
     ELSE LexEnum(pr.terms))
    \o <<KFrom, Ident(pr.from)>>

LexAlphabet(d) ==
    <<KDef, Ident(d.name), Colon, TypeName("Alphabet"), Equals>> \o
    ( CASE d.form = "enumeration" -> <<LBrace>> \o LexEnum(d.terms) \o <<RBrace>>
        [] d.form = "strict" ->
             <<TypeName("Gen"), Dot, LParen>> \o LexEnum(d.terms) \o <<RParen>>
        [] d.form = "describe" ->
             LET one(pr) == LexPair(d.paren, pr)
             IN  <<TypeName("Gen"), Dot, LBrace>>
                 \o Join(one, d.pairs, <<Comma>>) \o <<RBrace>> )

LexTrans(t) == LexTerm(t.by) \o <<Arrow>> \o LexTerm(t.to)

LexState(s) == <<Ident(s.name)>> \o Join(LexTrans, s.trans, <<>>)

LexAutomaton(d) ==
    <<KDef, Ident(d.name), Colon, TypeName("Automaton"), Equals,
      TypeName("Automaton"), Dot, LParen, Ident(d.alphabet), RParen, Dot, LBrace,
      KStart>>
    \o Join(LexTrans, d.start, <<>>)
    \o Join(LexState, d.regular, <<>>)
    \o (IF d.termblock
        THEN <<KTerminal, LBrace>> \o Join(LexState, d.terminal, <<>>) \o <<RBrace>>
        ELSE <<>>)
    \o <<RBrace>>

LexField(f) ==
    <<Ident(f.name), Colon, TypeName(f.type)>>
    \o (IF f.default.k = "none" THEN <<>> ELSE <<Equals>> \o LexTerm(f.default))

\* a.x: with fused, the lexer gives the member access as one METHOD token ".x"
\* (the token the grammar's compareoperation takes after ID); otherwise "." is a
\* punctuation token of its own, followed by the identifier.
LexAccess(fused, a, x) ==
    IF fused THEN <<Ident(a), Tok("METHOD", PyStr("." \o x))>>
    ELSE <<Ident(a), Dot, Ident(x)>>

LexCmp(fused, c) ==
    LexAccess(fused, c.a, c.x) \o <<Tok("COMPAREOPERATOR", PyStr(c.op))>>
    \o LexAccess(fused, c.b, c.y)

RECURSIVE LexOps(_, _)
LexOps(fused, e) ==
    CASE e.k = "cmp" -> LexCmp(fused, e)
      [] e.k = "paren" -> <<LParen>> \o LexOps(fused, e.e) \o <<RParen>>
      [] e.k = "chain" ->
           LexOps(fused, e.e) \o <<Tok("LOGICOPERATOR", PyStr(e.op)), LParen>>
           \o LexCmp(fused, e.c) \o <<RParen>>

LexMethod(fused, m) ==
    <<KOverride, KFun, Ident(m.name), LParen>>
    \o Join(LexField, m.fields, <<Comma>>)
    \o <<RParen, Colon, TypeName(m.ret), LBrace, KReturn, LParen>>
    \o LexOps(fused, m.ops)
    \o <<RParen, RBrace>>

LexClass(d) ==
    LET one(m) == LexMethod(d.fused, m)
    IN  <<KClass, TypeName(d.name), LParen>>
        \o Join(LexField, d.fields, <<Comma>>)
        \o <<RParen, Colon, TypeName(d.parent), LBrace>>
        \o Join(one, d.methods, <<>>)
        \o <<RBrace>>

LexDecl(d) ==
    CASE d.k = "alphabet" -> LexAlphabet(d)
      [] d.k = "automaton" -> LexAutomaton(d)
      [] d.k = "class" -> LexClass(d)

(* A source file: its declarations, and an edit that damages the text:       *)
(* none, the token at a position dropped, or a stray token put in front of  *)
(* a position.                                                               *)

NoEdit == [k |-> "none"]

DropAt(i) == [k |-> "drop", at |-> i]

InsertAt(i, tok) == [k |-> "insert", at |-> i, tok |-> tok]

SourceFile(decls, edit) == [decls |-> decls, edit |-> edit]

ApplyEdit(toks, e) ==
    CASE e.k = "none" -> toks
      [] e.k = "drop" -> SubSeq(toks, 1, e.at - 1) \o SubSeq(toks, e.at + 1, Len(toks))
      [] e.k = "insert" ->
           SubSeq(toks, 1, e.at - 1) \o <<e.tok>> \o SubSeq(toks, e.at, Len(toks))

Lex(src) == ApplyEdit(Join(LexDecl, src.decls, <<>>), src.edit)

-----------------------------------------------------------------------------
(* yacc's parse(): the shift/reduce loop and its error handling *)

EndType == "$end"

State == statestack[Len(statestack)]

\* The type of the lookahead symbol.
LookaheadType ==
    IF la = "error" THEN "error"
    ELSE IF pos > Len(input) THEN EndType
    ELSE input[pos].type

\* t = actions[state].get(ltype), or the defaulted reduction; NoAction is None.
HasAction ==
    \/ IsDefaulted(State)
    \/ LookaheadType \in DOMAIN ActionTable[State + 1]

Action ==
    IF IsDefaulted(State) THEN DefaultAction(State)
    ELSE ActionTable[State + 1][LookaheadType]

Rule == Productions[-Action]

\* The values p[1], ..., p[n] of the rule being reduced.
Handle ==
    SubSeq(symstack, Len(symstack) - Len(Rule.rhs) + 1, Len(symstack))

TypeOK ==
    /\ pos \in 1..(Len(input) + 1)
    /\ la \in {"token", "error"}
    /\ status \in {"parsing", "returned", "crashed"}
    /\ Len(statestack) = Len(symstack) + 1
    /\ \A i \in 1..Len(statestack) : statestack[i] \in 0..(NumStates - 1)
    /\ errorcount \in 0..3

Shift ==
    /\ status = "parsing"
    /\ HasAction
    /\ Action > 0
    /\ statestack' = Append(statestack, Action)
    /\ symstack' = Append(symstack, input[pos].value)
    /\ pos' = pos + 1
    /\ errorcount' = IF errorcount > 0 THEN errorcount - 1 ELSE errorcount
    /\ UNCHANGED <<source, input, la, errtoken, stdout, status, result, exc>>

CanReduce(fn) ==
    /\ status = "parsing"
    /\ HasAction
    /\ Action < 0
    /\ Rule.fn = fn

\* p.callable(pslice) gave p[0] = value (or raised), then the goto.
DoReduce(value) ==
    LET n == Len(Rule.rhs)
        below == SubSeq(statestack, 1, Len(statestack) - n)
    IN  IF value.tag = "raise"
        THEN /\ status' = "crashed"
             /\ exc' = value.exc
             /\ UNCHANGED <<source, input, pos, la, statestack, symstack,
                            errorcount, errtoken, stdout, result>>
        ELSE /\ symstack' = Append(SubSeq(symstack, 1, Len(symstack) - n), value)
             /\ statestack' =
                    Append(below, GotoTable[below[Len(below)] + 1][Rule.lhs])
             /\ UNCHANGED <<source, input, pos, la, errorcount, errtoken, stdout,
                            status, result, exc>>

Reduce_expressions == CanReduce("p_expressions") /\ DoReduce(p_expressions(Handle))

Reduce_expression == CanReduce("p_expression") /\ DoReduce(p_expression(Handle))

Reduce_empty == CanReduce("p_empty") /\ DoReduce(p_empty(Handle))

Reduce_alphabet == CanReduce("p_alphabet") /\ DoReduce(p_alphabet(Handle))

Reduce_enumeration == CanReduce("p_enumeration") /\ DoReduce(p_enumeration(Handle))

Reduce_term == CanReduce("p_term") /\ DoReduce(p_term(Handle))

Reduce_alphabetdescribebody ==
    CanReduce("p_alphabetdescribebody") /\ DoReduce(p_alphabetdescribebody(Handle))

Reduce_paramsdescribe ==
    CanReduce("p_paramsdescribe") /\ DoReduce(p_paramsdescribe(Handle))

Reduce_transitionterm ==
    CanReduce("p_transitionterm") /\ DoReduce(p_transitionterm(Handle))

Reduce_transitionkeyword ==
    CanReduce("p_transitionkeyword") /\ DoReduce(p_transitionkeyword(Handle))

Reduce_transition == CanReduce("p_transition") /\ DoReduce(p_transition(Handle))

Reduce_automaton == CanReduce("p_automaton") /\ DoReduce(p_automaton(Handle))

Reduce_automatondescribebody ==
    CanReduce("p_automatondescribebody") /\ DoReduce(p_automatondescribebody(Handle))

Reduce_statedescription ==
    CanReduce("p_statedescription") /\ DoReduce(p_statedescription(Handle))

Reduce_states == CanReduce("p_states") /\ DoReduce(p_states(Handle))

Reduce_termstates == CanReduce("p_termstates") /\ DoReduce(p_termstates(Handle))

Reduce_classdef == CanReduce("p_classdef") /\ DoReduce(p_classdef(Handle))

Reduce_field == CanReduce("p_field") /\ DoReduce(p_field(Handle))

Reduce_fields == CanReduce("p_fields") /\ DoReduce(p_fields(Handle))

Reduce_classbody == CanReduce("p_classbody") /\ DoReduce(p_classbody(Handle))

Reduce_method == CanReduce("p_method") /\ DoReduce(p_method(Handle))

Reduce_compareoperation ==
    CanReduce("p_compareoperation") /\ DoReduce(p_compareoperation(Handle))

Reduce_logicoperations ==
    CanReduce("p_logicoperations") /\ DoReduce(p_logicoperations(Handle))

\* t == 0: parse() returns the value on top of the symbol stack.
Accept ==
    /\ status = "parsing"
    /\ HasAction
    /\ Action = 0
    /\ status' = "returned"
    /\ result' = symstack[Len(symstack)]
    /\ UNCHANGED <<source, input, pos, la, statestack, symstack, errorcount,
                   errtoken, stdout, exc>>

\* t is None on a token (or on the end of input): p_error is called unless one
\* of the last three shifts followed an error; then the token is dropped if the
\* stack is already empty, parse() returns None at the end of input, and
\* otherwise the error symbol becomes the lookahead.
SyntaxError ==
    /\ status = "parsing"
    /\ la = "token"
    /\ ~HasAction
    /\ errorcount' = 3
    /\ IF errorcount = 0
       THEN stdout' = p_error(stdout) /\ errtoken' = pos
       ELSE UNCHANGED <<stdout, errtoken>>
    /\ IF Len(statestack) <= 1 /\ LookaheadType # EndType
       THEN /\ pos' = pos + 1
            /\ UNCHANGED <<la, status, result>>
       ELSE IF LookaheadType = EndType
       THEN /\ status' = "returned"
            /\ result' = PyNone
            /\ UNCHANGED <<pos, la>>
       ELSE /\ la' = "error"
            /\ UNCHANGED <<pos, status, result>>
    /\ UNCHANGED <<source, input, statestack, symstack, exc>>

\* No state has an action on the error symbol (the grammar has no error rule):
\* the stacks are popped one entry at a time.
ErrorPop ==
    /\ status = "parsing"
    /\ la = "error"
    /\ ~HasAction
    /\ Len(statestack) > 1
    /\ statestack' = SubSeq(statestack, 1, Len(statestack) - 1)
    /\ symstack' = SubSeq(symstack, 1, Len(symstack) - 1)
    /\ errorcount' = 3
    /\ UNCHANGED <<source, input, pos, la, errtoken, stdout, status, result, exc>>

\* The stack is empty: the offending token is discarded and parsing goes on
\* in state 0 with the next token.
ErrorDiscard ==
    /\ status = "parsing"
    /\ la = "error"
    /\ ~HasAction
    /\ Len(statestack) <= 1
    /\ la' = "token"
    /\ pos' = pos + 1
    /\ errorcount' = 3
    /\ UNCHANGED <<source, input, statestack, symstack, errtoken, stdout, status,
                   result, exc>>

-----------------------------------------------------------------------------
(* The source files parsed *)

MaxDepth == 2

MaxEnum == 2

MaxPairs == 2

MaxStates == 2

MaxTrans == 2

MaxMethods == 3

MaxOps == 2

MaxDecls == 3

\* All sequences over S of length lo..hi.
SeqsOf(S, lo, hi) == UNION {[1..n -> S] : n \in lo..hi}

Atoms == {SChar("a"), SInt(1), SId("x")}

RECURSIVE Nested(_)
Nested(d) ==
    IF d <= 1 THEN {SCtor("A", <<SInt(1)>>)}
    ELSE Nested(d - 1) \cup {SCtor("B", <<t, SId("y")>>) : t \in Nested(d - 1)}

Terms == Atoms \cup Nested(MaxDepth)

Enums == SeqsOf(Terms, 1, MaxEnum)

PairSamples == {SPair(<<SInt(1), SInt(2)>>, "x"), SPair(<<SChar("b")>>, "z")}

AlphabetDecls ==
    {SAlphabet("al", form, ts, <<>>, FALSE) :
        form \in {"enumeration", "strict"}, ts \in Enums}
    \cup
    {SAlphabet("al", "describe", <<>>, ps, paren) :
        ps \in SeqsOf(PairSamples, 1, MaxPairs), paren \in BOOLEAN}

StateNames == <<"q1", "q2", "q3", "q4", "q5", "q6", "q7", "q8">>

TransSamples ==
    << STrans(SChar("a"), SId("q1")),
       STrans(SKw("else"), SId("q2")),
       STrans(SCtor("A", <<SInt(1), SCtor("B", <<SId("x")>>)>>), SId("q3")),
       STrans(SKw("deadend"), SKw("itself")),
       STrans(SString("s"), SId("q4")),
       STrans(SInt(7), SId("q5")),
       STrans(SKw("alphabet"), SId("q6")),
       STrans(SKw("itself"), SKw("deadend")) >>

\* The n transitions written for the i-th state of an automaton.
TransOf(i, n) ==
    [j \in 1..n |-> TransSamples[((i + j - 2) % Len(TransSamples)) + 1]]

\* The states number first, first + 1, ... of an automaton; cnt[i] transitions
\* are written for state i (the start state is number 0).
StatesOf(first, count, cnt) ==
    [i \in 1..count |->
        SState(StateNames[((first + i - 2) % Len(StateNames)) + 1],
               TransOf(first + i, cnt[first + i - 1]))]

AutomatonDecl(nReg, nTerm, cnt, termblock) ==
    SAutomaton("m", "al", TransOf(1, cnt[0]), StatesOf(1, nReg, cnt),
               StatesOf(nReg + 1, nTerm, cnt), termblock)

GoodAutomatonDecls ==
    {AutomatonDecl(nReg, nTerm, [i \in 0..(nReg + nTerm) |-> nTr], TRUE) :
        nReg \in 0..MaxStates, nTerm \in 0..MaxStates, nTr \in 1..MaxTrans}

\* Automata the grammar must refuse: no terminal block, or a state with no
\* transition.
BadAutomatonDecls ==
    {AutomatonDecl(nReg, 0, [i \in 0..nReg |-> 1], FALSE) : nReg \in 0..MaxStates}
    \cup
    UNION {{AutomatonDecl(nReg, nTerm,
                          [i \in 0..(nReg + nTerm) |-> IF i = victim THEN 0 ELSE 1],
                          TRUE) : victim \in 0..(nReg + nTerm)} :
           nReg \in 0..MaxStates, nTerm \in 0..MaxStates}

Cmp1 == SCmp("a", "x", "==", "b", "y")

Cmp2 == SCmp("c", "u", "<", "d", "v")

RECURSIVE OpsOfDepth(_)
OpsOfDepth(d) ==
    IF d = 0 THEN {Cmp1}
    ELSE OpsOfDepth(d - 1)
         \cup {SParen(e) : e \in OpsOfDepth(d - 1)}
         \cup {SChain(e, "&&", Cmp2) : e \in OpsOfDepth(d - 1)}

FieldSamples ==
    << SField("f", "Int", SNoDefault),
       SField("g", "Char", SChar("c")),
       SField("h", "A", SCtor("A", <<SInt(1), SCtor("B", <<SId("x")>>)>>)),
       SField("i", "Int", SInt(3)) >>

MethodNames == <<"m1", "m2", "m3", "m4", "m5">>

ClassDecls ==
    {SClass("C", "P", SubSeq(FieldSamples, 1, nf),
            <<SMethod("m1", SubSeq(FieldSamples, 1, 1), "Bool", e)>>, fused) :
        nf \in 1..Len(FieldSamples), e \in OpsOfDepth(MaxOps), fused \in BOOLEAN}
    \cup
    {SClass("C", "P", SubSeq(FieldSamples, 1, 1),
            [i \in 1..k |->
                SMethod(MethodNames[((i - 1) % Len(MethodNames)) + 1],
                        SubSeq(FieldSamples, 1, 2), "Bool", Cmp1)],
            fused) :
        k \in 1..MaxMethods, fused \in BOOLEAN}

\* One declaration of each kind, for the files with several declarations and
\* for the damaged files.
SampleAlphabet == SAlphabet("al", "enumeration", <<SChar("a"), SId("x")>>, <<>>, FALSE)

SampleAutomaton == AutomatonDecl(1, 1, [i \in 0..2 |-> 1], TRUE)

SampleClass ==
    SClass("C", "P", SubSeq(FieldSamples, 1, 2),
           <<SMethod("m1", SubSeq(FieldSamples, 1, 1), "Bool", SParen(Cmp1))>>, TRUE)

SampleDecls == {SampleAlphabet, SampleAutomaton, SampleClass}

SingleDecls ==
    AlphabetDecls \cup GoodAutomatonDecls \cup BadAutomatonDecls \cup ClassDecls

DamagedBases ==
    { <<SampleAlphabet>>, <<SampleAutomaton>>, <<SampleClass>>,
      <<SampleAlphabet, SampleAutomaton>>, <<SampleAutomaton, SampleAlphabet>> }

Edits(ds) ==
    LET n == Len(Join(LexDecl, ds, <<>>))
    IN  {DropAt(i) : i \in 1..n} \cup {InsertAt(i, RBrace) : i \in 1..(n + 1)}

Sources ==
    {SourceFile(<<d>>, NoEdit) : d \in SingleDecls}
    \cup {SourceFile(ds, NoEdit) : ds \in SeqsOf(SampleDecls, 2, MaxDecls)}
    \cup {SourceFile(<<b, SampleAlphabet>>, NoEdit) : b \in BadAutomatonDecls}
    \cup UNION {{SourceFile(ds, e) : e \in Edits(ds)} : ds \in DamagedBases}

-----------------------------------------------------------------------------
(* The program: sys.stdin.read() of the file, then parser.parse *)

Init ==
    /\ source \in Sources
    /\ input = Lex(source)
    /\ pos = 1
    /\ la = "token"
    /\ statestack = <<0>>
    /\ symstack = <<>>
    /\ errorcount = 0
    /\ errtoken = 0
    /\ stdout = <<>>
    /\ status = "parsing"
    /\ result = PyNone
    /\ exc = ""

Next ==
    \/ Shift
    \/ Reduce_expressions
    \/ Reduce_expression
    \/ Reduce_empty
    \/ Reduce_alphabet
    \/ Reduce_enumeration
    \/ Reduce_term
    \/ Reduce_alphabetdescribebody
    \/ Reduce_paramsdescribe
    \/ Reduce_transitionterm
    \/ Reduce_transitionkeyword
    \/ Reduce_transition
    \/ Reduce_automaton
    \/ Reduce_automatondescribebody
    \/ Reduce_statedescription
    \/ Reduce_states
    \/ Reduce_termstates
    \/ Reduce_classdef
    \/ Reduce_field
    \/ Reduce_fields
    \/ Reduce_classbody
    \/ Reduce_method
    \/ Reduce_compareoperation
    \/ Reduce_logicoperations
    \/ Accept
    \/ SyntaxError
    \/ ErrorPop
    \/ ErrorDiscard

Spec == Init /\ [][Next]_vars

-----------------------------------------------------------------------------
(* What the properties read: the nodes built so far, and what the source says *)

\* The values a Python value refers to.
Children(v) ==
    IF v.tag \in {"list", "tuple"} THEN {v.items[i] : i \in 1..Len(v.items)}
    ELSE IF v.tag \in {"str", "int", "None", "raise", "ConstructorType", "StateKind"}
    THEN {}
    ELSE {v[f] : f \in DOMAIN v \ {"tag"}}

RECURSIVE NodesOf(_)
NodesOf(v) == {v} \cup UNION {NodesOf(c) : c \in Children(v)}

\* Every value on the symbol stack or in the returned result.
Live == UNION {NodesOf(symstack[i]) : i \in 1..Len(symstack)} \cup NodesOf(result)

LiveOf(tag) == {v \in Live : v.tag = tag}

DeclsOf(src, kind) ==
    {src.decls[i] : i \in {j \in 1..Len(src.decls) : src.decls[j].k = kind}}

Intact(src) == src.edit.k = "none"

\* The value the data model gives a written term: a literal or identifier is
\* its own value, T(arg, ...) is a Variable of type T with the argument list.
RECURSIVE ExpTerm(_)
ExpTerms(ts) == [i \in 1..Len(ts) |-> ExpTerm(ts[i])]

ExpTerm(t) ==
    CASE t.k = "INT" -> PyInt(t.n)
      [] t.k = "ctor" -> Variable(PyStr(t.type), PyList(ExpTerms(t.args)))
      [] OTHER -> PyStr(t.v)

ExpPair(pr) == PyTuple(<<PyList(ExpTerms(pr.terms)), PyStr(pr.from)>>)

ExpAlphabet(d) ==
    Alphabet(PyStr(d.name), ConstructorType(d.form),
             IF d.form = "describe"
             THEN PyList([i \in 1..Len(d.pairs) |-> ExpPair(d.pairs[i])])
             ELSE PyList(ExpTerms(d.terms)))

\* The declaration follows the grammar of the language.
ValidDecl(d) ==
    CASE d.k = "alphabet" ->
           IF d.form = "describe"
           THEN /\ ~d.paren
                /\ Len(d.pairs) >= 1
                /\ \A i \in 1..Len(d.pairs) : Len(d.pairs[i].terms) >= 1
           ELSE Len(d.terms) >= 1
      [] d.k = "automaton" ->
           /\ d.termblock
           /\ Len(d.start) >= 1
           /\ \A i \in 1..Len(d.regular) : Len(d.regular[i].trans) >= 1
           /\ \A i \in 1..Len(d.terminal) : Len(d.terminal[i].trans) >= 1
      [] d.k = "class" -> Len(d.fields) >= 1 /\ Len(d.methods) >= 1

GrammarValid(src) ==
    Intact(src) /\ \A i \in 1..Len(src.decls) : ValidDecl(src.decls[i])

NodeKind(v) ==
    CASE v.tag = "Alphabet" -> "alphabet"
      [] v.tag = "Automaton" -> "automaton"
      [] v.tag = "ClassDefinition" -> "class"
      [] OTHER -> "other"

NodeName(v) ==
    IF v.tag = "ClassDefinition" THEN v.class_name
    ELSE IF v.tag \in {"Alphabet", "Automaton"} THEN v.name
    ELSE PyNone

IsList(v) == v.tag = "list"

-----------------------------------------------------------------------------
(* C1: for every grammar-valid token stream of N >= 1 top-level declarations *)
(* parse completes (no exception, no syntax error) and returns a list of     *)
(* exactly N declarations, of the written kinds and names, in source order.  *)
C1_ParseReturnsEveryDeclaration ==
    GrammarValid(source) =>
        /\ status # "crashed"
        /\ stdout = <<>>
        /\ status = "returned" =>
             /\ IsList(result)
             /\ Len(result.items) = Len(source.decls)
             /\ \A i \in 1..Len(source.decls) :
                    /\ NodeKind(result.items[i]) = source.decls[i].k
                    /\ NodeName(result.items[i]) = PyStr(source.decls[i].name)

(* C2: once a token has no applicable production, parsing stops at that      *)
(* token: a single syntax error is reported, no token is shifted afterwards  *)
(* (errorcount, set to 3 by the error, only goes down on a shift), and no    *)
(* declaration list is returned.                                             *)
C2_SyntaxErrorStopsTheParse ==
    errtoken > 0 =>
        /\ errorcount = 3
        /\ Len(stdout) = 1
        /\ status = "returned" => result = PyNone

(* C3: a single alphabet declaration of any of the three forms (a strict     *)
(* alphabet of one bare identifier and the describe form with parenthesised  *)
(* enumerations included) is accepted and yields one Alphabet with the       *)
(* constructor type of its form and the written enumeration or body.         *)
C3_AlphabetFormsDiscriminated ==
    ( /\ Intact(source)
      /\ Len(source.decls) = 1
      /\ source.decls[1].k = "alphabet" ) =>
        /\ status # "crashed"
        /\ stdout = <<>>
        /\ status = "returned" => result = PyList(<<ExpAlphabet(source.decls[1])>>)

-----------------------------------------------------------------------------
NonEmptyList(v) == IsList(v) /\ Len(v.items) >= 1

StatesHaveTransitions(l) ==
    /\ IsList(l)
    /\ \A i \in 1..Len(l.items) :
           /\ l.items[i].tag = "AutomatonState"
           /\ NonEmptyList(l.items[i].transitions)

BadAutomaton(d) == d.k = "automaton" /\ ~ValidDecl(d)

HasTerminalToken == \E i \in 1..Len(input) : input[i].type = "TERMINAL"

(* C4: in every Automaton the parser builds, the start state and every       *)
(* regular and terminal state has at least one transition; no Automaton is   *)
(* built from a text without a terminal block, nor from a file whose         *)
(* automata all lack the terminal block or have a state without transitions, *)
(* and parsing such a file reports a syntax error.                           *)
C4_AutomatonStatesHaveTransitions ==
    /\ \A a \in LiveOf("Automaton") :
           /\ a.body.tag = "AutomatonBody"
           /\ a.body.start_state.kind = StateKind("start")
           /\ NonEmptyList(a.body.start_state.transitions)
           /\ StatesHaveTransitions(a.body.regular_states)
           /\ StatesHaveTransitions(a.body.terminal_states)
    /\ ~HasTerminalToken => LiveOf("Automaton") = {}
    /\ ( /\ Intact(source)
         /\ DeclsOf(source, "automaton") # {}
         /\ \A d \in DeclsOf(source, "automaton") : BadAutomaton(d) ) =>
           /\ LiveOf("Automaton") = {}
           /\ status = "returned" => Len(stdout) >= 1

C4_Witness ==
    /\ Intact(source)
    /\ \E d \in DeclsOf(source, "automaton") :
           /\ BadAutomaton(d)
           /\ d.termblock
           /\ Len(d.regular) >= 1
    /\ status = "returned"
    /\ Len(stdout) >= 1

-----------------------------------------------------------------------------
\* The key of a transition as written: a keyword is its word, a constructed
\* value its Variable; a literal is compared by its value, bare or wrapped.
SymbolMatches(sym, by) ==
    CASE by.k = "kw" -> sym = PyStr(by.v)
      [] by.k = "ctor" -> sym = ExpTerm(by)
      [] OTHER -> \/ sym = ExpTerm(by)
                  \/ sym.tag = "Variable" /\ sym.constructor_params = ExpTerm(by)

TransitionMatches(tr, st) ==
    /\ tr.tag = "Transition"
    /\ tr.state_to = PyStr(st.to.v)
    /\ SymbolMatches(tr.symbol_by, st.by)

StatesMatch(l, written, kind) ==
    /\ IsList(l)
    /\ Len(l.items) = Len(written)
    /\ \A i \in 1..Len(written) :
           /\ l.items[i].tag = "AutomatonState"
           /\ l.items[i].name = PyStr(written[i].name)
           /\ l.items[i].kind = StateKind(kind)
           /\ IsList(l.items[i].transitions)
           /\ Len(l.items[i].transitions.items) = Len(written[i].trans)
           /\ \A j \in 1..Len(written[i].trans) :
                  TransitionMatches(l.items[i].transitions.items[j],
                                    written[i].trans[j])

\* The list the other base case gives: empty reduced first, then the state
\* appended by the left-recursive rule.
ViaEmpty(f(_), h) == f(<<f(<<p_empty(<<>>)>>), h[1], h[2]>>)

(* C5: every Automaton built from an undamaged file lists the regular and    *)
(* the terminal states of its declaration in their written order, each with  *)
(* its kind and its own transitions in written order; and where the list is  *)
(* started by ID statedescription, starting it from empty gives the same.    *)
C5_StatesInSourceOrder ==
    /\ Intact(source) =>
         \A a \in LiveOf("Automaton") :
             \E d \in DeclsOf(source, "automaton") :
                 /\ a.name = PyStr(d.name)
                 /\ StatesMatch(a.body.regular_states, d.regular, "regular")
                 /\ StatesMatch(a.body.terminal_states, d.terminal, "terminal")
    /\ (CanReduce("p_states") /\ Len(Rule.rhs) = 2) =>
           p_states(Handle) = ViaEmpty(p_states, Handle)
    /\ (CanReduce("p_termstates") /\ Len(Rule.rhs) = 2) =>
           p_termstates(Handle) = ViaEmpty(p_termstates, Handle)

C5_Witness ==
    /\ Intact(source)
    /\ status = "returned"
    /\ IsList(result)
    /\ \E i \in 1..Len(result.items) :
           /\ result.items[i].tag = "Automaton"
           /\ Len(result.items[i].body.regular_states.items) >= 2
           /\ Len(result.items[i].body.terminal_states.items) >= 2
           /\ \E j \in 1..2 :
                  Len(result.items[i].body.regular_states.items[j].transitions.items) >= 2

-----------------------------------------------------------------------------
RECURSIVE CmpsOf(_)
CmpsOf(e) ==
    CASE e.k = "cmp" -> {e}
      [] e.k = "paren" -> CmpsOf(e.e)
      [] e.k = "chain" -> CmpsOf(e.e) \cup {e.c}

MethodsOf(src) ==
    UNION {{d.methods[i] : i \in 1..Len(d.methods)} : d \in DeclsOf(src, "class")}

SpecCompare(c) ==
    CompareOperation(FieldAccess(PyStr(c.a), PyStr(c.x)), PyStr(c.op),
                     FieldAccess(PyStr(c.b), PyStr(c.y)))

\* A file of classes whose member accesses are lexed as ID "." ID.
PunctuatedClasses(src) ==
    /\ GrammarValid(src)
    /\ \A i \in 1..Len(src.decls) : src.decls[i].k = "class" /\ ~src.decls[i].fused

(* C6: a comparison given as the tokens ID . ID COMPAREOP ID . ID is         *)
(* accepted, and every CompareOperation built has left = FieldAccess(first   *)
(* ID, second ID), the operator token, right = FieldAccess(third ID, fourth  *)
(* ID).                                                                      *)
C6_CompareOperationFields ==
    /\ PunctuatedClasses(source) => stdout = <<>>
    /\ Intact(source) =>
         \A c \in LiveOf("CompareOperation") :
             \E m \in MethodsOf(source) : \E w \in CmpsOf(m.ops) : c = SpecCompare(w)

(* C7: every ClassDefinition built has as methods a non-empty list of        *)
(* exactly the k written methods, in source order, and no exception ends     *)
(* the parse of a class.                                                     *)
C7_ClassMethodsListed ==
    Intact(source) =>
        /\ DeclsOf(source, "class") # {} => status # "crashed"
        /\ \A c \in LiveOf("ClassDefinition") :
               /\ NonEmptyList(c.methods)
               /\ \E d \in DeclsOf(source, "class") :
                      /\ Len(c.methods.items) = Len(d.methods)
                      /\ \A i \in 1..Len(d.methods) :
                             /\ c.methods.items[i].tag = "ClassMethod"
                             /\ c.methods.items[i].name = PyStr(d.methods[i].name)

\* The flat sequence a written logic expression stands for: parentheses are
\* dropped; an entry is a comparison or an operator word.
RECURSIVE FlatOps(_)
FlatOps(e) ==
    CASE e.k = "cmp" -> <<e>>
      [] e.k = "paren" -> FlatOps(e.e)
      [] e.k = "chain" -> FlatOps(e.e) \o <<[k |-> "op", v |-> e.op], e.c>>

OpEntryMatches(v, w) ==
    IF w.k = "op" THEN v = PyStr(w.v)
    ELSE /\ v.tag = "CompareOperation"
         /\ v.left.belongs_to = PyStr(w.a)
         /\ v.operator = PyStr(w.op)
         /\ v.right.belongs_to = PyStr(w.b)

(* C8: the operations of every ClassMethod built are the flat left-to-right  *)
(* sequence of the comparisons and logic operators written, the same with    *)
(* or without parentheses: no parenthesis token is in the sequence.          *)
C8_OperationsAreFlat ==
    Intact(source) =>
        \A m \in LiveOf("ClassMethod") :
            /\ IsList(m.operations)
            /\ \A i \in 1..Len(m.operations.items) :
                   m.operations.items[i] \notin {PyStr("("), PyStr(")")}
            /\ \E w \in MethodsOf(source) :
                   /\ m.name = PyStr(w.name)
                   /\ Len(m.operations.items) = Len(FlatOps(w.ops))
                   /\ \A i \in 1..Len(FlatOps(w.ops)) :
                          OpEntryMatches(m.operations.items[i], FlatOps(w.ops)[i])

(* C9: a describe alphabet with n >= 1 entries "enumeration from ID" is      *)
(* built without an exception, and its constructor_params is the list of    *)
(* the n pairs (list of terms, source identifier) in source order.           *)
C9_DescribePairsListed ==
    \A d \in DeclsOf(source, "alphabet") :
        (Intact(source) /\ d.form = "describe" /\ ValidDecl(d)) =>
            /\ status # "crashed"
            /\ \A a \in LiveOf("Alphabet") :
                   a.constructor_type = ConstructorType("describe") =>
                       a.constructor_params = ExpAlphabet(d).constructor_params
            /\ (status = "returned" /\ Len(source.decls) = 1) =>
                   result = PyList(<<ExpAlphabet(d)>>)

-----------------------------------------------------------------------------
RECURSIVE CtorsIn(_)
CtorsIn(t) ==
    IF t.k = "ctor"
    THEN {t} \cup UNION {CtorsIn(t.args[i]) : i \in 1..Len(t.args)}
    ELSE {}

CtorsInSeq(ts) == UNION {CtorsIn(ts[i]) : i \in 1..Len(ts)}

CtorsInStates(ss) ==
    UNION {UNION {CtorsIn(ss[i].trans[j].by) : j \in 1..Len(ss[i].trans)} :
           i \in 1..Len(ss)}

CtorsInFields(fs) ==
    UNION {IF fs[i].default.k = "none" THEN {} ELSE CtorsIn(fs[i].default) :
           i \in 1..Len(fs)}

\* Every constructor application written in a declaration.
CtorsInDecl(d) ==
    CASE d.k = "alphabet" ->
           CtorsInSeq(d.terms)
           \cup UNION {CtorsInSeq(d.pairs[i].terms) : i \in 1..Len(d.pairs)}
      [] d.k = "automaton" ->
           UNION {CtorsIn(d.start[j].by) : j \in 1..Len(d.start)}
           \cup CtorsInStates(d.regular) \cup CtorsInStates(d.terminal)
      [] d.k = "class" ->
           CtorsInFields(d.fields)
           \cup UNION {CtorsInFields(d.methods[i].fields) : i \in 1..Len(d.methods)}

CtorsInSource(src) == UNION {CtorsInDecl(src.decls[i]) : i \in 1..Len(src.decls)}

TypeNamesRead == {input[i].value : i \in {j \in 1..Len(input) : input[j].type = "CLASSNAME"}}

(* C10: every Variable built, through term or through transitionterm, has a  *)
(* type name as vartype and a list of terms as arguments, and is the tree of *)
(* a constructor application written in the source, nested as written.       *)
C10_VariablesAreConstructorApplications ==
    \A v \in LiveOf("Variable") :
        /\ v.vartype \in TypeNamesRead
        /\ IsList(v.constructor_params)
        /\ Intact(source) => v \in {ExpTerm(t) : t \in CtorsInSource(source)}

=============================================================================
